---- MODULE Spec2Model ----
(***************************************************************************)
(* MinIO read-through file cache (gustrain/minio), latest revision of the  *)
(* core: cache_contains, cache_store, cache_load, cache_read, cache_flush  *)
(* and cache_init.  Worker threads/processes share one cache_t; every      *)
(* atomic operation, lock acquisition and shared-memory access of the C    *)
(* code is one step of a worker.                                           *)
(***************************************************************************)
EXTENDS Integers, Sequences, FiniteSets, TLC

(* ------------------------------ bounds --------------------------------- *)
NThreads == 2
MaxCalls == 3
MaxCallsSeq == 4
MaxFaults == 1
MaxCallsRace == 4
MaxCallsStore == 3
MaxCallsMiss == 4
MaxCallsRound == 2
MaxCallsLong == 3

(* ------------------------- program constants --------------------------- *)
MAX_PATH_LEN == 128
AVERAGE_FILE_SIZE == 100 * 1024
ENTRIES_PER_LOCK == 16
MIN_LOCKS == 8
ENOENT == 2
E2BIG == 7
ENOMEM == 12
EINVAL == 22
EMFILE == 24
ENOSPC == 28
ENODATA == 61

NULL == 0 - 1
NoThread == 0
Threads == 1 .. NThreads

(* --------------------------- the environment --------------------------- *)
(* Paths are strings, modelled as sequences of characters.                 *)
PathA == <<"a", "/", "b">>
PathB == <<"a", "_", "b">>
PathC == <<"c">>
PathZ == <<"z">>
PathN == <<"n">>

(* Keys used with contains, store and load. *)
CachePaths == {PathA, PathB, PathC}
(* Paths handed to cache_read: PathZ is an empty file, PathN does not exist. *)
ReadPaths == {PathA, PathB, PathC, PathZ, PathN}
AllPaths == CachePaths \cup ReadPaths

(* Files around the 4096-byte block of direct IO: their sizes, their paths  *)
(* "r1" .. "r6", and their bytes (all zero).                               *)
RoundSizes == <<1, 4095, 4096, 4097, 5000, 8192>>
RoundDigits == <<"1", "2", "3", "4", "5", "6">>
RoundPath(i) == <<"r", RoundDigits[i]>>
RoundPaths == {RoundPath(i) : i \in DOMAIN RoundSizes}
Zeros(n) == [i \in 1 .. n |-> 0]
RoundFiles == [p \in RoundPaths |-> Zeros(RoundSizes[CHOOSE i \in DOMAIN RoundSizes : RoundPath(i) = p])]

(* Paths as long as the path field of an entry, and one character longer,  *)
(* each of a file of one byte.                                             *)
PathAtLimit == [i \in 1 .. MAX_PATH_LEN |-> "p"]
PathOverLimit == [i \in 1 .. MAX_PATH_LEN + 1 |-> "q"]
LongPaths == {PathAtLimit, PathOverLimit}
LongFiles == [p \in LongPaths |-> <<1>>]

(* The immutable files on disk: path -> bytes. *)
Files == (PathA :> <<1, 2>>) @@ (PathB :> <<3>>) @@ (PathC :> <<4, 5, 6>>) @@ (PathZ :> <<>>)
            @@ RoundFiles @@ LongFiles

(* <<path, data>> handed to cache_store by a direct caller (size = length), *)
(* <<path, max>> handed to cache_load and <<path, max_size>> handed to      *)
(* cache_read: by concurrent workers, and by a single worker.               *)
StoreArgs == {<<PathA, <<7, 8>>>>, <<PathB, <<9, 8, 7>>>>, <<PathB, <<7>>>>}
LoadArgs == {<<PathA, 3>>, <<PathB, 3>>}
ReadArgs == {<<PathA, 3>>, <<PathA, 1>>, <<PathB, 3>>, <<PathC, 3>>}
ContainsArgs == {PathA, PathB}

StoreArgsSeq == StoreArgs \cup {<<PathB, <<8, 7>>>>, <<PathC, <<>>>>}
StoreLoadArgsSeq == {<<PathA, <<7, 8>>>>, <<PathB, <<7>>>>, <<PathB, <<8, 7>>>>, <<PathC, <<>>>>}
LoadArgsSeq == LoadArgs \cup {<<PathA, 1>>, <<PathC, 3>>}
ReadArgsSeq == ReadArgs \cup {<<PathZ, 3>>, <<PathN, 3>>}
ContainsArgsSeq == CachePaths

(* <<size, max_item_size, avg_item_size>> handed to cache_init. *)
InitArgs == {<<2, 0, 3>>, <<3, 0, 2>>, <<2, 2, 3>>, <<2, 2, 2>>, <<3, 2, 2>>}

Max(a, b) == IF a >= b THEN a ELSE b
Min(a, b) == IF a <= b THEN a ELSE b

VARIABLES
    size,             \* c->size: capacity in bytes
    max_item_size,    \* c->max_item_size
    max_ht_entries,   \* c->max_ht_entries
    n_entry_locks,    \* c->n_entry_locks
    used,             \* c->used (atomic)
    n_ht_entries,     \* c->n_ht_entries (atomic)
    ht_entries,       \* c->ht_entries[0 .. max_ht_entries-1]
    ht,               \* the hash index: slots in insertion order
    ht_lock,          \* c->ht_lock: holder or NoThread
    entry_locks,      \* c->entry_locks[]: holder or NoThread
    n_accs, n_hits, n_miss_cold, n_miss_capacity, n_fail,
    shm,              \* POSIX shm namespace: name -> bytes, or absent
    pc,               \* position of every worker
    lv,               \* locals of the call in progress / of the last call
    admitted,         \* history: <<key, caller>> of the stores that returned 0 since the flush
    refused,          \* history: stores made by cache_read that returned < 0
    calls,            \* history: number of calls started
    budget,           \* the number of calls the callers make
    faults,           \* history: number of injected system-call failures
    flushed           \* history: the files cache_read had admitted when the last flush cleared
                      \* the table, and the number of calls started by then

cfg == <<size, max_item_size, max_ht_entries, n_entry_locks>>
stats == <<n_accs, n_hits, n_miss_cold, n_miss_capacity, n_fail>>
locks == <<ht_lock, entry_locks>>
hist == <<admitted, refused, calls, budget, faults, flushed>>
vars == <<cfg, used, n_ht_entries, ht_entries, ht, locks, stats, shm, pc, lv, hist>>

(* ------------------------------ helpers -------------------------------- *)

(* strncpy(entry->path, path, MAX_PATH_LEN) *)
Strncpy(path) == SubSeq(path, 1, Min(Len(path), MAX_PATH_LEN))

(* entry->shm_path: '/' followed by entry->path with '/' replaced by '_'. *)
ShmPath(epath) == <<"/">> \o [i \in 1 .. Len(epath) |-> IF epath[i] = "/" THEN "_" ELSE epath[i]]

(* The segment names the paths of a set give rise to. *)
ShmNamesOf(paths) == {ShmPath(Strncpy(p)) : p \in paths}

ShmNames == ShmNamesOf(AllPaths)

(* utils_hash: the slot hash selecting an entry's bucket lock. *)
utils_hash(i) == i * 4

(* c->ht_entries[i].lock_id *)
LockId(i) == utils_hash(i) % n_entry_locks

(* cache_init: max_ht_entries *)
InitMaxHtEntries(sz, avg) == IF avg # 0 THEN (2 * sz) \div avg ELSE (2 * sz) \div AVERAGE_FILE_SIZE

(* cache_init: n_entry_locks *)
InitNEntryLocks(maxe) == Max(MIN_LOCKS, maxe \div ENTRIES_PER_LOCK)

ZeroEntry == [path |-> <<>>, size |-> 0, shm_path |-> <<>>, next |-> NULL, owner |-> NoThread]

(* A lookup keyed by the segment name of the path. *)
HashFindBySegment(path) ==
    LET hits == {k \in 1 .. Len(ht) : ShmPath(ht_entries[ht[k]].path) = ShmPath(path)}
    IN  IF hits = {} THEN NULL
        ELSE ht[CHOOSE k \in hits : \A j \in hits : j <= k]

(* HASH_FIND_STR(c->ht, path, entry): the most recently added entry whose  *)
(* key equals path, or NULL.                                               *)
HashFind(path) ==
    LET hits == {k \in 1 .. Len(ht) : ht_entries[ht[k]].path = path}
    IN  IF hits = {} THEN NULL
        ELSE ht[CHOOSE k \in hits : \A j \in hits : j <= k]

(* A store with no size constraint. *)
TooBigNever(sz) == FALSE

(* A size constraint that excludes the limit itself. *)
TooBigAtLimit(sz) == sz >= max_item_size

(* cache_store: the size constraint. *)
TooBig(sz) == sz > max_item_size

(* A slot test that lets the index max_ht_entries through. *)
SlotFullAfter(n) == n > max_ht_entries

(* cache_store: no entry left. *)
SlotFull(n) == n >= max_ht_entries

(* A range check on the size alone. *)
OutOfRangeOwn(u, sz) == sz > size

(* A range check on the offset alone. *)
OutOfRangeBefore(u, sz) == u > size

(* cache_store: the data would be placed out of range. *)
OutOfRange(u, sz) == u + sz > size

(* cache_load: the entry does not fit the caller's buffer. *)
LoadTooLarge(esize, max) == esize > max

(* cache_read: the size of the file is not OK. *)
BadFileSize(fsize, max) == fsize > max \/ fsize = 0

(* memcpy(data, ptr, n) out of a mapping of a segment; bytes of the page   *)
(* past the end of the segment read as zero.                               *)
MapRead(seg, n) == [i \in 1 .. n |-> IF i <= Len(seg) THEN seg[i] ELSE 0]

(* ftruncate(fd, n): cut, or extend with zero bytes. *)
Truncate(seg, n) == [i \in 1 .. n |-> IF i <= Len(seg) THEN seg[i] ELSE 0]

NoSeg == <<NULL>>

NoCall == [op |-> "none", path |-> <<>>, data |-> <<>>, sz |-> 0, max |-> 0,
           n |-> NULL, used_old |-> 0, entry |-> NULL, bytes |-> 0,
           status |-> 0, ret |-> 0, in_read |-> FALSE, walk |-> <<>>, map |-> <<>>, held |-> {}, req |-> 0, avg |-> 0,
           used0 |-> 0, n0 |-> 0, in0 |-> FALSE, cap0 |-> 0, cold0 |-> 0, hits0 |-> 0, fail0 |-> 0,
           reason |-> "none", was |-> "none", accs0 |-> 0, ht0 |-> <<>>, ents0 |-> <<>>, shm0 |-> <<>>,
           prev |-> <<NULL>>]

NewCall(op, p, d, mx) ==
    [NoCall EXCEPT !.op = op, !.path = p, !.data = d, !.sz = Len(d), !.max = mx]

(* A call as the caller sees it: the locals and what held when it began.   *)
Observed(op, p, d, mx) ==
    [NewCall(op, p, d, mx) EXCEPT !.used0 = used, !.n0 = n_ht_entries,
                                  !.in0 = (HashFind(p) # NULL),
                                  !.cap0 = n_miss_capacity,
                                  !.cold0 = n_miss_cold, !.hits0 = n_hits,
                                  !.fail0 = n_fail, !.accs0 = n_accs,
                                  !.ht0 = ht, !.ents0 = ht_entries, !.shm0 = shm]

FlushPcs == {"fl_iter"}
Quiet(t) == pc[t] \in {"idle", "done", "crashed"}

(* A worker at "done" has returned; its caller looks at the result before  *)
(* anything else happens.                                                  *)
NoneDone == \A t \in Threads : pc[t] # "done"
At(t, label) == pc[t] = label /\ NoneDone
FlushRunning == \E t \in Threads : pc[t] \in FlushPcs

(* The caller's contract: a key is admitted at most once per flush epoch   *)
(* and two workers never access the same path for the first time at once.  *)
FirstAccess(t, p) ==
    \A u \in Threads \ {t} : Quiet(u) \/ lv[u].path # p \/ lv[u].op \notin {"store", "read"}

CanCall(t) == At(t, "idle") /\ calls < budget /\ ~FlushRunning

(* ------------------------------- Init ---------------------------------- *)
(* The cache after cache_init, beside a /dev/shm that can hold the names. *)
InitCacheWith(args, names) ==
    /\ \E a \in args :
          /\ size = a[1]
          /\ max_item_size = a[2]
          /\ max_ht_entries = InitMaxHtEntries(a[1], a[3])
          /\ n_entry_locks = InitNEntryLocks(InitMaxHtEntries(a[1], a[3]))
    /\ max_ht_entries > 0
    /\ used = 0
    /\ n_ht_entries = 0
    /\ ht_entries = [i \in 0 .. max_ht_entries - 1 |-> ZeroEntry]
    /\ ht = <<>>
    /\ ht_lock = NoThread
    /\ entry_locks = [i \in 0 .. n_entry_locks - 1 |-> NoThread]
    /\ n_accs = 0 /\ n_hits = 0 /\ n_miss_cold = 0 /\ n_miss_capacity = 0 /\ n_fail = 0
    /\ shm = [nm \in names |-> NoSeg]
    /\ pc = [t \in Threads |-> "idle"]
    /\ lv = [t \in Threads |-> NoCall]
    /\ admitted = {}
    /\ refused = 0
    /\ calls = 0
    /\ faults = 0
    /\ flushed = [keys |-> {}, calls |-> 0]

InitCacheFrom(args) == InitCacheWith(args, ShmNames)

InitCache == InitCacheFrom(InitArgs)

Init == InitCache /\ budget = MaxCalls
InitSeq == InitCache /\ budget = MaxCallsSeq

(* --------------------------- cache_contains ---------------------------- *)
CallContains(t, p) ==
    /\ CanCall(t)
    /\ ht_lock = NoThread
    /\ ht_lock' = t
    /\ lv' = [lv EXCEPT ![t] = Observed("contains", p, <<>>, 0)]
    /\ pc' = [pc EXCEPT ![t] = "ct_find"]
    /\ calls' = calls + 1
    /\ UNCHANGED <<cfg, used, n_ht_entries, ht_entries, ht, entry_locks, stats, shm,
                   admitted, refused, budget, faults, flushed>>

CtFind(t) ==
    /\ At(t, "ct_find")
    /\ ht_lock' = NoThread
    /\ lv' = [lv EXCEPT ![t].ret = IF HashFind(lv[t].path) # NULL THEN 1 ELSE 0]
    /\ pc' = [pc EXCEPT ![t] = "done"]
    /\ UNCHANGED <<cfg, used, n_ht_entries, ht_entries, ht, entry_locks, stats, shm, hist>>

(* ----------------------------- cache_store ----------------------------- *)
(* A return of cache_store with value r: to the direct caller, or back     *)
(* into cache_read.                                                        *)
StoreReturn(t, l, r) ==
    /\ lv' = [lv EXCEPT ![t] = [l EXCEPT !.status = r, !.ret = IF l.in_read THEN l.ret ELSE r]]
    /\ pc' = [pc EXCEPT ![t] = IF l.in_read THEN "rd_stored"
                               ELSE IF l.op = "store_load" /\ r = 0 THEN "ld_lock" ELSE "done"]
    /\ admitted' = IF r = 0 THEN admitted \cup {<<l.path, l.op>>} ELSE admitted
    /\ refused' = IF l.in_read /\ r < 0 THEN refused + 1 ELSE refused

(* Entry of cache_store: the size constraint. *)
StoreEnter(t, l) ==
    IF TooBig(l.sz)
    THEN StoreReturn(t, l, 0 - E2BIG)
    ELSE /\ lv' = [lv EXCEPT ![t] = l]
         /\ pc' = [pc EXCEPT ![t] = "st_slot"]
         /\ UNCHANGED <<admitted, refused>>

CallStore(t, p, d) ==
    /\ CanCall(t)
    /\ FirstAccess(t, p)
    /\ HashFind(p) = NULL
    /\ StoreEnter(t, Observed("store", p, d, 0))
    /\ calls' = calls + 1
    /\ UNCHANGED <<cfg, used, n_ht_entries, ht_entries, ht, locks, stats, shm, budget, faults, flushed>>

(* A caller that stores (path, d, n) and, when that succeeded, loads path  *)
(* back with max = n.                                                      *)
CallStoreLoad(t, p, d) ==
    /\ CanCall(t)
    /\ FirstAccess(t, p)
    /\ HashFind(p) = NULL
    /\ StoreEnter(t, [Observed("store_load", p, d, Len(d)) EXCEPT !.prev = d])
    /\ calls' = calls + 1
    /\ UNCHANGED <<cfg, used, n_ht_entries, ht_entries, ht, locks, stats, shm, budget, faults, flushed>>

(* size_t n = atomic_fetch_add(&c->n_ht_entries, 1) *)
StSlot(t) ==
    /\ At(t, "st_slot")
    /\ n_ht_entries' = n_ht_entries + 1
    /\ IF SlotFull(n_ht_entries)
       THEN StoreReturn(t, [lv[t] EXCEPT !.n = n_ht_entries], 0 - ENOMEM)
       ELSE /\ lv' = [lv EXCEPT ![t].n = n_ht_entries]
            /\ pc' = [pc EXCEPT ![t] = "st_used"]
            /\ UNCHANGED <<admitted, refused>>
    /\ UNCHANGED <<cfg, used, ht_entries, ht, locks, stats, shm, calls, budget, faults, flushed>>

(* entry->size = size; size_t used = atomic_fetch_add(&c->used, size) *)
StUsed(t) ==
    /\ At(t, "st_used")
    /\ ht_entries' = [ht_entries EXCEPT ![lv[t].n].size = lv[t].sz]
    /\ used' = used + lv[t].sz
    /\ lv' = [lv EXCEPT ![t].used_old = used]
    /\ pc' = [pc EXCEPT ![t] = "st_check"]
    /\ UNCHANGED <<cfg, n_ht_entries, ht, locks, stats, shm, hist>>

(* A rollback that gives the slot back as well. *)
StRollbackSlot(t) ==
    /\ At(t, "st_check")
    /\ OutOfRange(lv[t].used_old, lv[t].sz)
    /\ used' = used - lv[t].sz
    /\ n_ht_entries' = n_ht_entries - 1
    /\ StoreReturn(t, lv[t], 0 - ENOMEM)
    /\ UNCHANGED <<cfg, ht_entries, ht, locks, stats, shm, calls, budget, faults, flushed>>

(* A rollback that stores the offset read before the expansion. *)
StRollbackToOld(t) ==
    /\ At(t, "st_check")
    /\ OutOfRange(lv[t].used_old, lv[t].sz)
    /\ used' = lv[t].used_old
    /\ StoreReturn(t, lv[t], 0 - ENOMEM)
    /\ UNCHANGED <<cfg, n_ht_entries, ht_entries, ht, locks, stats, shm, calls, budget, faults, flushed>>

(* The range check failed: undo the expansion and abort. *)
StRollback(t) ==
    /\ At(t, "st_check")
    /\ OutOfRange(lv[t].used_old, lv[t].sz)
    /\ used' = used - lv[t].sz
    /\ StoreReturn(t, lv[t], 0 - ENOMEM)
    /\ UNCHANGED <<cfg, n_ht_entries, ht_entries, ht, locks, stats, shm, calls, budget, faults, flushed>>

(* entry->path and entry->shm_path as written by cache_store. *)
NamedEntry(e, path) == [e EXCEPT !.path = Strncpy(path), !.shm_path = ShmPath(Strncpy(path))]

(* entry->shm_fd = shm_open(...), entry->ptr = mmap(...): a descriptor     *)
(* number and an address of the calling process t, each worker being a     *)
(* process of its own.                                                     *)
HandleEntry(e, t) == [e EXCEPT !.owner = t]

(* A memcpy that leaves the mapping as it was. *)
MapWriteNothing(seg, data) == seg

(* memcpy(entry->ptr, data, size) through the shared mapping. *)
MapWrite(seg, data) == [i \in 1 .. Len(seg) |-> IF i <= Len(data) THEN data[i] ELSE seg[i]]

(* A cache_store that fills in the slot and creates no segment. *)
StCopyNoSegment(t) ==
    /\ At(t, "st_check")
    /\ ~OutOfRange(lv[t].used_old, lv[t].sz)
    /\ ht_entries' = [ht_entries EXCEPT ![lv[t].n] = NamedEntry(ht_entries[lv[t].n], lv[t].path)]
    /\ pc' = [pc EXCEPT ![t] = "st_lock"]
    /\ UNCHANGED <<cfg, used, n_ht_entries, ht, locks, stats, shm, lv, hist>>

(* The range check passed: name the entry, shm_open(O_RDWR | O_CREAT),     *)
(* ftruncate(entry->shm_fd, entry->size), mmap and memcpy. A mapping of    *)
(* length 0 is MAP_FAILED, which the memcpy of 0 bytes never touches.      *)
StCopy(t) ==
    /\ At(t, "st_check")
    /\ ~OutOfRange(lv[t].used_old, lv[t].sz)
    /\ LET e == HandleEntry(NamedEntry(ht_entries[lv[t].n], lv[t].path), t)
       IN  /\ ht_entries' = [ht_entries EXCEPT ![lv[t].n] = e]
           /\ shm' = [shm EXCEPT ![e.shm_path] =
                         MapWrite(Truncate(IF @ = NoSeg THEN <<>> ELSE @, lv[t].sz), lv[t].data)]
    /\ pc' = [pc EXCEPT ![t] = "st_lock"]
    /\ UNCHANGED <<cfg, used, n_ht_entries, ht, locks, stats, lv, hist>>

(* shm_open fails (for instance EMFILE): return -errno. *)
StOpenFail(t) ==
    /\ At(t, "st_check")
    /\ ~OutOfRange(lv[t].used_old, lv[t].sz)
    /\ faults < MaxFaults
    /\ faults' = faults + 1
    /\ ht_entries' = [ht_entries EXCEPT ![lv[t].n] = NamedEntry(@, lv[t].path)]
    /\ StoreReturn(t, lv[t], 0 - EMFILE)
    /\ UNCHANGED <<cfg, used, n_ht_entries, ht, locks, stats, shm, calls, budget, flushed>>

(* shm_open succeeds, ftruncate fails: shm_unlink, close, return -errno. *)
StTruncFail(t) ==
    /\ At(t, "st_check")
    /\ ~OutOfRange(lv[t].used_old, lv[t].sz)
    /\ faults < MaxFaults
    /\ faults' = faults + 1
    /\ LET e == NamedEntry(ht_entries[lv[t].n], lv[t].path)
       IN  /\ ht_entries' = [ht_entries EXCEPT ![lv[t].n] = e]
           /\ shm' = [shm EXCEPT ![e.shm_path] = NoSeg]
    /\ StoreReturn(t, lv[t], 0 - ENOSPC)
    /\ UNCHANGED <<cfg, used, n_ht_entries, ht, locks, stats, calls, budget, flushed>>

(* A cache_store that inserts without the hash-table lock. *)
StLockFree(t) ==
    /\ At(t, "st_lock")
    /\ pc' = [pc EXCEPT ![t] = "st_add"]
    /\ UNCHANGED <<cfg, used, n_ht_entries, ht_entries, ht, locks, stats, shm, lv, hist>>

(* mmap fails: it returns MAP_FAILED, which is not NULL, so the check of   *)
(* entry->ptr passes and the memcpy faults.                                *)
StMapFail(t) ==
    /\ At(t, "st_check")
    /\ ~OutOfRange(lv[t].used_old, lv[t].sz)
    /\ lv[t].sz > 0
    /\ faults < MaxFaults
    /\ faults' = faults + 1
    /\ LET e == NamedEntry(ht_entries[lv[t].n], lv[t].path)
       IN  /\ ht_entries' = [ht_entries EXCEPT ![lv[t].n] = e]
           /\ shm' = [shm EXCEPT ![e.shm_path] = Truncate(IF @ = NoSeg THEN <<>> ELSE @, lv[t].sz)]
    /\ pc' = [pc EXCEPT ![t] = "crashed"]
    /\ lv' = [lv EXCEPT ![t] = NoCall]
    /\ UNCHANGED <<cfg, used, n_ht_entries, ht, locks, stats,
                   admitted, refused, calls, budget, flushed>>

StLock(t) ==
    /\ At(t, "st_lock")
    /\ ht_lock = NoThread
    /\ ht_lock' = t
    /\ pc' = [pc EXCEPT ![t] = "st_add"]
    /\ UNCHANGED <<cfg, used, n_ht_entries, ht_entries, ht, entry_locks, stats, shm, lv, hist>>

(* An insert that drops the entries already in the table. *)
HashAddAlone(tbl, n) == <<n>>

(* HASH_ADD_STR(c->ht, path, entry): the entry is chained to the table. *)
HashAdd(tbl, n) == Append(tbl, n)

(* HASH_ADD_STR: hh.next of the entry added last now points to the new     *)
(* entry, whose own hh.next is NULL.                                       *)
HashLink(entries, tbl, n) ==
    [i \in DOMAIN entries |->
        IF i = n THEN [entries[i] EXCEPT !.next = NULL]
        ELSE IF tbl # <<>> /\ i = tbl[Len(tbl)] THEN [entries[i] EXCEPT !.next = n]
        ELSE entries[i]]

(* HASH_ADD_STR(c->ht, path, entry); unlock; return 0. *)
StAdd(t) ==
    /\ At(t, "st_add")
    /\ ht' = HashAdd(ht, lv[t].n)
    /\ ht_entries' = HashLink(ht_entries, ht, lv[t].n)
    /\ ht_lock' = NoThread
    /\ StoreReturn(t, lv[t], 0)
    /\ UNCHANGED <<cfg, used, n_ht_entries, entry_locks, stats, shm, calls, budget, faults, flushed>>

(* ------------------------------ cache_load ----------------------------- *)
(* A return of cache_load with value r: to the direct caller, or back into *)
(* cache_read.                                                             *)
LoadReturn(t, l, r) ==
    /\ lv' = [lv EXCEPT ![t] = [l EXCEPT !.status = r, !.map = <<>>,
                                         !.ret = IF l.in_read \/ l.op = "store_load"
                                                 THEN l.ret ELSE r]]
    /\ pc' = [pc EXCEPT ![t] = IF l.in_read THEN "rd_loaded" ELSE "done"]

CallLoad(t, p, mx) ==
    /\ CanCall(t)
    /\ lv' = [lv EXCEPT ![t] = Observed("load", p, <<>>, mx)]
    /\ pc' = [pc EXCEPT ![t] = "ld_lock"]
    /\ calls' = calls + 1
    /\ UNCHANGED <<cfg, used, n_ht_entries, ht_entries, ht, locks, stats, shm,
                   admitted, refused, budget, faults, flushed>>

(* cache_load: pthread_spin_lock(&c->ht_lock). *)
LdLock(t) ==
    /\ At(t, "ld_lock")
    /\ ht_lock = NoThread
    /\ ht_lock' = t
    /\ pc' = [pc EXCEPT ![t] = "ld_find"]
    /\ UNCHANGED <<cfg, used, n_ht_entries, ht_entries, ht, entry_locks, stats, shm, lv, hist>>

(* A cache_load whose miss returns with the hash-table lock held. *)
LdFindKeepLock(t) ==
    /\ At(t, "ld_find")
    /\ LET e == HashFind(lv[t].path)
       IN  IF e = NULL
           THEN LoadReturn(t, lv[t], 0 - ENODATA)
           ELSE /\ lv' = [lv EXCEPT ![t].entry = e]
                /\ pc' = [pc EXCEPT ![t] = "ld_elock"]
    /\ UNCHANGED <<cfg, used, n_ht_entries, ht_entries, ht, locks, stats, shm, hist>>

(* HASH_FIND_STR under the lock; a miss unlocks and returns -ENODATA. *)
LdFind(t) ==
    /\ At(t, "ld_find")
    /\ LET e == HashFind(lv[t].path)
       IN  IF e = NULL
           THEN /\ ht_lock' = NoThread
                /\ LoadReturn(t, lv[t], 0 - ENODATA)
           ELSE /\ lv' = [lv EXCEPT ![t].entry = e]
                /\ pc' = [pc EXCEPT ![t] = "ld_elock"]
                /\ UNCHANGED ht_lock
    /\ UNCHANGED <<cfg, used, n_ht_entries, ht_entries, ht, entry_locks, stats, shm, hist>>

(* Take the entry's lock, then release the hash-table lock. *)
LdEntryLock(t) ==
    /\ At(t, "ld_elock")
    /\ entry_locks[LockId(lv[t].entry)] = NoThread
    /\ entry_locks' = [entry_locks EXCEPT ![LockId(lv[t].entry)] = t]
    /\ ht_lock' = NoThread
    /\ pc' = [pc EXCEPT ![t] = "ld_open"]
    /\ UNCHANGED <<cfg, used, n_ht_entries, ht_entries, ht, stats, shm, lv, hist>>

(* shm_open and mmap of the entry's segment (asserted), *size = entry->size *)
(* and the check against MAX, which returns -EINVAL with the lock released. *)
LdOpen(t) ==
    /\ At(t, "ld_open")
    /\ LET e == ht_entries[lv[t].entry]
           l == [lv[t] EXCEPT !.bytes = e.size, !.map = shm[e.shm_path], !.held = {e.shm_path}]
       IN  IF shm[e.shm_path] = NoSeg
           THEN /\ pc' = [pc EXCEPT ![t] = "crashed"]
                /\ lv' = [lv EXCEPT ![t] = NoCall]
                /\ UNCHANGED entry_locks
           ELSE IF LoadTooLarge(e.size, lv[t].max)
                THEN /\ entry_locks' = [entry_locks EXCEPT ![LockId(lv[t].entry)] = NoThread]
                     /\ LoadReturn(t, l, 0 - EINVAL)
                ELSE /\ lv' = [lv EXCEPT ![t] = l]
                     /\ pc' = [pc EXCEPT ![t] = "ld_copy"]
                     /\ UNCHANGED entry_locks
    /\ UNCHANGED <<cfg, used, n_ht_entries, ht_entries, ht, ht_lock, stats, shm, hist>>

(* A cache_load that returns without unlocking the entry. *)
LdCopyKeepLock(t) ==
    /\ At(t, "ld_copy")
    /\ LET e == ht_entries[lv[t].entry]
           seg == IF shm[e.shm_path] = NoSeg THEN lv[t].map ELSE shm[e.shm_path]
       IN  LoadReturn(t, [lv[t] EXCEPT !.data = MapRead(seg, e.size), !.held = {}], 0)
    /\ UNCHANGED <<cfg, used, n_ht_entries, ht_entries, ht, locks, stats, shm, hist>>

(* A cache_load that counts its own hit. *)
LdCopyCounting(t) ==
    /\ At(t, "ld_copy")
    /\ LET e == ht_entries[lv[t].entry]
           seg == IF shm[e.shm_path] = NoSeg THEN lv[t].map ELSE shm[e.shm_path]
       IN  LoadReturn(t, [lv[t] EXCEPT !.data = MapRead(seg, e.size), !.held = {}], 0)
    /\ entry_locks' = [entry_locks EXCEPT ![LockId(lv[t].entry)] = NoThread]
    /\ n_hits' = n_hits + 1
    /\ UNCHANGED <<cfg, used, n_ht_entries, ht_entries, ht, ht_lock, n_accs, n_miss_cold,
                   n_miss_capacity, n_fail, shm, hist>>

(* memcpy(data, ptr, entry->size); close; munmap; unlock; return 0. A      *)
(* segment unlinked since the mmap is still mapped with its last bytes.    *)
LdCopy(t) ==
    /\ At(t, "ld_copy")
    /\ LET e == ht_entries[lv[t].entry]
           seg == IF shm[e.shm_path] = NoSeg THEN lv[t].map ELSE shm[e.shm_path]
       IN  LoadReturn(t, [lv[t] EXCEPT !.data = MapRead(seg, e.size), !.held = {}], 0)
    /\ entry_locks' = [entry_locks EXCEPT ![LockId(lv[t].entry)] = NoThread]
    /\ UNCHANGED <<cfg, used, n_ht_entries, ht_entries, ht, ht_lock, stats, shm, hist>>

(* ------------------------------ cache_read ----------------------------- *)
(* STAT_INC(c, n_accs), then cache_load(c, path, data, &bytes, max_size).  *)
CallRead(t, p, mx) ==
    /\ CanCall(t)
    /\ IF HashFind(p) = NULL THEN FirstAccess(t, p) ELSE TRUE
    /\ n_accs' = n_accs + 1
    /\ lv' = [lv EXCEPT ![t] = [Observed("read", p, <<>>, mx) EXCEPT
                                    !.in_read = TRUE,
                                    !.was = IF lv[t].op = "read" /\ lv[t].path = p
                                            THEN lv[t].reason ELSE "none"]]
    /\ pc' = [pc EXCEPT ![t] = "ld_lock"]
    /\ calls' = calls + 1
    /\ UNCHANGED <<cfg, used, n_ht_entries, ht_entries, ht, locks, shm,
                   n_hits, n_miss_cold, n_miss_capacity, n_fail, admitted, refused, budget, faults, flushed>>

(* cache_load returned 0: a hit. *)
RdHit(t) ==
    /\ At(t, "rd_loaded")
    /\ lv[t].status = 0
    /\ n_hits' = n_hits + 1
    /\ lv' = [lv EXCEPT ![t].ret = lv[t].bytes]
    /\ pc' = [pc EXCEPT ![t] = "done"]
    /\ UNCHANGED <<cfg, used, n_ht_entries, ht_entries, ht, locks, shm,
                   n_accs, n_miss_cold, n_miss_capacity, n_fail, hist>>

(* cache_load failed with something else than -ENODATA: return it. *)
RdLoadError(t) ==
    /\ At(t, "rd_loaded")
    /\ lv[t].status < 0
    /\ lv[t].status # 0 - ENODATA
    /\ lv' = [lv EXCEPT ![t].ret = lv[t].status]
    /\ pc' = [pc EXCEPT ![t] = "done"]
    /\ UNCHANGED <<cfg, used, n_ht_entries, ht_entries, ht, locks, shm, stats, hist>>

(* The open of the file fails, or its size is not OK. *)
RdFail(t) ==
    /\ At(t, "rd_loaded")
    /\ lv[t].status = 0 - ENODATA
    /\ IF lv[t].path \in DOMAIN Files THEN BadFileSize(Len(Files[lv[t].path]), lv[t].max) ELSE TRUE
    /\ n_fail' = n_fail + 1
    /\ lv' = [lv EXCEPT ![t].ret = IF lv[t].path \notin DOMAIN Files THEN 0 - ENOENT ELSE 0 - EINVAL]
    /\ pc' = [pc EXCEPT ![t] = "done"]
    /\ UNCHANGED <<cfg, used, n_ht_entries, ht_entries, ht, locks, shm,
                   n_accs, n_hits, n_miss_cold, n_miss_capacity, hist>>

(* a | b on unsigned integers, bit by bit. *)
RECURSIVE BitOr(_, _)
BitOr(a, b) ==
    IF a = 0 THEN b
    ELSE IF b = 0 THEN a
    ELSE Max(a % 2, b % 2) + 2 * BitOr(a \div 2, b \div 2)

(* read(fd, data, (size | 0xFFF) + 1): the length asked of the file system. *)
ReadLength(fsize) == BitOr(fsize, 4095) + 1

(* The file is read into DATA and handed to cache_store. *)
RdMiss(t) ==
    /\ At(t, "rd_loaded")
    /\ lv[t].status = 0 - ENODATA
    /\ lv[t].path \in DOMAIN Files
    /\ ~BadFileSize(Len(Files[lv[t].path]), lv[t].max)
    /\ StoreEnter(t, [lv[t] EXCEPT !.data = Files[lv[t].path], !.sz = Len(Files[lv[t].path]),
                                   !.req = ReadLength(Len(Files[lv[t].path]))])
    /\ UNCHANGED <<cfg, used, n_ht_entries, ht_entries, ht, locks, shm, stats, calls, budget, faults, flushed>>

(* An accounting that takes only -ENOMEM for a capacity miss. *)
MissKindByErrno(status) == IF status = 0 - ENOMEM THEN "capacity" ELSE "cold"

(* An accounting that takes every miss for a cold one. *)
MissKindCold(status) == "cold"

(* The counter cache_read increments after cache_store returned status. *)
MissKind(status) == IF status < 0 THEN "capacity" ELSE "cold"

(* The value cache_read returns after a miss on a file of size fsize. *)
ReadResult(fsize) == fsize

RECURSIVE SumSizes(_)
SumSizes(tbl) == IF tbl = <<>> THEN 0 ELSE ht_entries[Head(tbl)].size + SumSizes(Tail(tbl))

(* The bytes of the entries admitted by the other workers: those in the    *)
(* table and those of stores that have passed the range check.             *)
RECURSIVE InFlightSize(_, _)
InFlightSize(t, ws) ==
    IF ws = {} THEN 0
    ELSE LET u == CHOOSE x \in ws : TRUE
             passed == \/ pc[u] \in {"st_lock", "st_add"}
                       \/ pc[u] = "st_check" /\ ~OutOfRange(lv[u].used_old, lv[u].sz)
         IN  (IF u # t /\ passed THEN lv[u].sz ELSE 0) + InFlightSize(t, ws \ {u})

AdmittedSize(t) ==
    SumSizes(ht) - (IF lv[t].status = 0 THEN lv[t].sz ELSE 0) + InFlightSize(t, Threads)

(* Why the cache_store made by this cache_read was refused: the item is    *)
(* larger than max_item_size, no slot was free, the bytes admitted leave   *)
(* no room for it, or none of these.                                       *)
RefusalReason(t) ==
    IF lv[t].status >= 0 THEN "none"
    ELSE IF lv[t].sz > max_item_size THEN "size"
    ELSE IF lv[t].n # NULL /\ lv[t].n >= max_ht_entries THEN "slots"
    ELSE IF AdmittedSize(t) + lv[t].sz > size THEN "space"
    ELSE "other"

RdStored(t) ==
    /\ At(t, "rd_stored")
    /\ n_miss_capacity' = n_miss_capacity + (IF MissKind(lv[t].status) = "capacity" THEN 1 ELSE 0)
    /\ n_miss_cold' = n_miss_cold + (IF MissKind(lv[t].status) = "cold" THEN 1 ELSE 0)
    /\ lv' = [lv EXCEPT ![t].ret = ReadResult(lv[t].sz), ![t].reason = RefusalReason(t)]
    /\ pc' = [pc EXCEPT ![t] = "done"]
    /\ UNCHANGED <<cfg, used, n_ht_entries, ht_entries, ht, locks, shm,
                   n_accs, n_hits, n_fail, hist>>

(* ------------------------------ cache_flush ---------------------------- *)
(* The entries reached from entry e along hh.next, at most k of them. *)
RECURSIVE Chain(_, _)
Chain(e, k) ==
    IF e = NULL \/ k = 0 THEN <<>> ELSE <<e>> \o Chain(ht_entries[e].next, k - 1)

(* HASH_ITER(hh, c->ht_entries, entry, tmp): the iteration of cache_flush   *)
(* starts at the first element of the entry array and follows hh.next.     *)
FlushWalk == Chain(0, max_ht_entries)

(* The caller serialises cache_flush against all traffic. *)
CallFlush(t) ==
    /\ At(t, "idle")
    /\ calls < budget
    /\ \A u \in Threads \ {t} : Quiet(u)
    /\ ht_lock = NoThread
    /\ ht_lock' = t
    /\ lv' = [lv EXCEPT ![t] = [NewCall("flush", <<>>, <<>>, 0) EXCEPT !.walk = FlushWalk,
                                                                     !.prev = ht]]
    /\ pc' = [pc EXCEPT ![t] = "fl_iter"]
    /\ calls' = calls + 1
    /\ UNCHANGED <<cfg, used, n_ht_entries, ht_entries, ht, entry_locks, stats, shm,
                   admitted, refused, budget, faults, flushed>>

(* One entry: lock it, shm_unlink, close, munmap, unlock. *)
FlIter(t) ==
    /\ At(t, "fl_iter")
    /\ lv[t].walk # <<>>
    /\ LET e == Head(lv[t].walk)
       IN  /\ entry_locks[LockId(e)] = NoThread
           /\ shm' = [nm \in DOMAIN shm |-> IF nm = ht_entries[e].shm_path THEN NoSeg ELSE shm[nm]]
    /\ lv' = [lv EXCEPT ![t].walk = Tail(lv[t].walk)]
    /\ UNCHANGED <<cfg, used, n_ht_entries, ht_entries, ht, locks, stats, pc, hist>>

(* A flush that also zeroes the statistics. *)
FlClearStats(t) ==
    /\ At(t, "fl_iter")
    /\ lv[t].walk = <<>>
    /\ ht' = <<>>
    /\ used' = 0
    /\ n_ht_entries' = 0
    /\ ht_lock' = NoThread
    /\ admitted' = {}
    /\ flushed' = [keys |-> {a[1] : a \in {b \in admitted : b[2] = "read"}}, calls |-> calls]
    /\ n_accs' = 0 /\ n_hits' = 0 /\ n_miss_cold' = 0 /\ n_miss_capacity' = 0 /\ n_fail' = 0
    /\ pc' = [pc EXCEPT ![t] = "done"]
    /\ UNCHANGED <<cfg, ht_entries, entry_locks, shm, lv, refused, calls, budget, faults>>

(* A flush that gives no slot back. *)
FlClearKeepSlots(t) ==
    /\ At(t, "fl_iter")
    /\ lv[t].walk = <<>>
    /\ ht' = <<>>
    /\ used' = 0
    /\ ht_lock' = NoThread
    /\ admitted' = {}
    /\ flushed' = [keys |-> {a[1] : a \in {b \in admitted : b[2] = "read"}}, calls |-> calls]
    /\ pc' = [pc EXCEPT ![t] = "done"]
    /\ UNCHANGED <<cfg, n_ht_entries, ht_entries, entry_locks, stats, shm, lv, refused, calls,
                   budget, faults>>

(* HASH_CLEAR, used = 0, n_ht_entries = 0, unlock. *)
FlClear(t) ==
    /\ At(t, "fl_iter")
    /\ lv[t].walk = <<>>
    /\ ht' = <<>>
    /\ used' = 0
    /\ n_ht_entries' = 0
    /\ ht_lock' = NoThread
    /\ admitted' = {}
    /\ flushed' = [keys |-> {a[1] : a \in {b \in admitted : b[2] = "read"}}, calls |-> calls]
    /\ pc' = [pc EXCEPT ![t] = "done"]
    /\ UNCHANGED <<cfg, ht_entries, entry_locks, stats, shm, lv, refused, calls, budget, faults>>

(* The caller has looked at the result of its call. *)
Forget(t) ==
    /\ pc[t] = "done"
    /\ pc' = [pc EXCEPT ![t] = "idle"]
    /\ lv' = [lv EXCEPT ![t] = NoCall]
    /\ UNCHANGED <<cfg, used, n_ht_entries, ht_entries, ht, locks, stats, shm, hist>>

(* ---------------------------- specifications --------------------------- *)
Inner(t) ==
    \/ CtFind(t)
    \/ StSlot(t)
    \/ StUsed(t)
    \/ StRollback(t)
    \/ StCopy(t)
    \/ StOpenFail(t)
    \/ StTruncFail(t)
    \/ StMapFail(t)
    \/ StLock(t)
    \/ StAdd(t)
    \/ LdLock(t)
    \/ LdFind(t)
    \/ LdEntryLock(t)
    \/ LdOpen(t)
    \/ LdCopy(t)
    \/ RdHit(t)
    \/ RdLoadError(t)
    \/ RdFail(t)
    \/ RdMiss(t)
    \/ RdStored(t)
    \/ FlIter(t)
    \/ FlClear(t)
    \/ Forget(t)

Step(t) ==
    \/ \E p \in ContainsArgs : CallContains(t, p)
    \/ \E a \in StoreArgs : CallStore(t, a[1], a[2])
    \/ \E a \in LoadArgs : CallLoad(t, a[1], a[2])
    \/ \E a \in ReadArgs : CallRead(t, a[1], a[2])
    \/ CallFlush(t)
    \/ Inner(t)

(* Workers running concurrently. *)
Next == \E t \in Threads : Step(t)
Spec == Init /\ [][Next]_vars

(* One worker calling the operations one after the other. *)
NextSeq ==
    \/ \E p \in ContainsArgsSeq : CallContains(1, p)
    \/ \E a \in StoreArgsSeq : CallStore(1, a[1], a[2])
    \/ \E a \in StoreLoadArgsSeq : CallStoreLoad(1, a[1], a[2])
    \/ \E a \in LoadArgsSeq : CallLoad(1, a[1], a[2])
    \/ \E a \in ReadArgsSeq : CallRead(1, a[1], a[2])
    \/ CallFlush(1)
    \/ Inner(1)
SpecSeq == InitSeq /\ [][NextSeq]_vars

(* Workers that each read a path of their own again and again, and whose   *)
(* cache_load and cache_flush calls are not serialised against each other. *)
OwnPath(t) == IF t = 1 THEN PathA ELSE IF t = 2 THEN PathB ELSE PathC
MaxRead == 3
InLoad(t) == lv[t].op = "load" /\ pc[t] \in {"ld_lock", "ld_find", "ld_elock", "ld_open", "ld_copy"}

(* cache_load, also while a flush is running. *)
RaceLoad(t, p, mx) ==
    /\ At(t, "idle")
    /\ calls < budget
    /\ lv' = [lv EXCEPT ![t] = Observed("load", p, <<>>, mx)]
    /\ pc' = [pc EXCEPT ![t] = "ld_lock"]
    /\ calls' = calls + 1
    /\ UNCHANGED <<cfg, used, n_ht_entries, ht_entries, ht, locks, stats, shm,
                   admitted, refused, budget, faults, flushed>>

(* cache_flush, also while cache_load calls are in flight. *)
RaceFlush(t) ==
    /\ At(t, "idle")
    /\ calls < budget
    /\ \A u \in Threads \ {t} : Quiet(u) \/ InLoad(u)
    /\ ht_lock = NoThread
    /\ ht_lock' = t
    /\ lv' = [lv EXCEPT ![t] = [NewCall("flush", <<>>, <<>>, 0) EXCEPT !.walk = FlushWalk,
                                                                     !.prev = ht]]
    /\ pc' = [pc EXCEPT ![t] = "fl_iter"]
    /\ calls' = calls + 1
    /\ UNCHANGED <<cfg, used, n_ht_entries, ht_entries, ht, entry_locks, stats, shm,
                   admitted, refused, budget, faults, flushed>>

(* The caller has looked at the result of its call and keeps it. *)
Again(t) ==
    /\ pc[t] = "done"
    /\ pc' = [pc EXCEPT ![t] = "idle"]
    /\ UNCHANGED <<cfg, used, n_ht_entries, ht_entries, ht, locks, stats, shm, lv, hist>>

InnerRace(t) ==
    \/ StSlot(t)
    \/ StUsed(t)
    \/ StRollback(t)
    \/ StCopy(t)
    \/ StLock(t)
    \/ StAdd(t)
    \/ LdLock(t)
    \/ LdFind(t)
    \/ LdEntryLock(t)
    \/ LdOpen(t)
    \/ LdCopy(t)
    \/ RdHit(t)
    \/ RdMiss(t)
    \/ RdStored(t)
    \/ FlIter(t)
    \/ FlClear(t)
    \/ Again(t)

NextRace ==
    \E t \in Threads :
        \/ CallRead(t, OwnPath(t), MaxRead)
        \/ \E q \in {PathA, PathB} : RaceLoad(t, q, MaxRead)
        \/ RaceFlush(t)
        \/ InnerRace(t)
InitRace == InitCache /\ budget = MaxCallsRace
SpecRace == InitRace /\ [][NextRace]_vars

(* Workers that only call cache_store, on three keys, with no failing      *)
(* system call.                                                            *)
StoreArgsPar == {<<PathA, <<7, 8>>>>, <<PathB, <<7>>>>, <<PathC, <<5, 6>>>>, <<PathB, <<9, 8, 7>>>>}

InnerStore(t) ==
    \/ StSlot(t)
    \/ StUsed(t)
    \/ StRollback(t)
    \/ StCopy(t)
    \/ StLock(t)
    \/ StAdd(t)
    \/ Again(t)

NextStore ==
    \E t \in Threads :
        \/ \E a \in StoreArgsPar : CallStore(t, a[1], a[2])
        \/ InnerStore(t)
InitStore == InitCache /\ budget = MaxCallsStore
SpecStore == InitStore /\ [][NextStore]_vars

(* Workers that each read their own file again and again while a third    *)
(* key is stored directly; the table has slots to spare.                   *)
InitArgsMiss == InitArgs \cup {<<3, 2, 1>>}

InnerMiss(t) ==
    \/ StSlot(t)
    \/ StUsed(t)
    \/ StRollback(t)
    \/ StCopy(t)
    \/ StLock(t)
    \/ StAdd(t)
    \/ LdLock(t)
    \/ LdFind(t)
    \/ LdEntryLock(t)
    \/ LdOpen(t)
    \/ LdCopy(t)
    \/ RdHit(t)
    \/ RdMiss(t)
    \/ RdStored(t)
    \/ Again(t)

NextMiss ==
    \E t \in Threads :
        \/ CallRead(t, OwnPath(t), MaxRead)
        \/ CallStore(t, PathC, <<5, 6>>)
        \/ InnerMiss(t)
InitMiss == InitCacheFrom(InitArgsMiss) /\ budget = MaxCallsMiss
SpecMiss == InitMiss /\ [][NextMiss]_vars

(* The same workers, each scheduled again and again while it has a step.   *)
SpecRaceFair == SpecRace /\ \A t \in Threads : WF_vars(InnerRace(t))

(* A single caller reading files whose sizes lie around the block size, in *)
(* a cache of three blocks that admits items of up to two blocks and a     *)
(* byte.                                                                   *)
InitArgsRound == {<<12288, 8193, 8192>>}
RoundMax == 8193
InnerRound ==
    \/ LdLock(1)
    \/ LdFind(1)
    \/ LdEntryLock(1)
    \/ LdOpen(1)
    \/ LdCopy(1)
    \/ RdHit(1)
    \/ RdMiss(1)
    \/ StSlot(1)
    \/ StUsed(1)
    \/ StRollback(1)
    \/ StCopy(1)
    \/ StLock(1)
    \/ StAdd(1)
    \/ RdStored(1)
    \/ Forget(1)
NextRound ==
    \/ \E p \in RoundPaths : CallRead(1, p, RoundMax)
    \/ InnerRound
InitRound == InitCacheWith(InitArgsRound, ShmNamesOf(RoundPaths)) /\ budget = MaxCallsRound
SpecRound == InitRound /\ [][NextRound]_vars

(* A single caller reading files at paths of 3, 128 and 129 characters. *)
NextLong ==
    \/ \E p \in LongPaths \cup {PathA} : CallRead(1, p, MaxRead)
    \/ InnerRound
InitLong == InitCacheWith(InitArgs, ShmNamesOf(LongPaths \cup {PathA})) /\ budget = MaxCallsLong
SpecLong == InitLong /\ [][NextLong]_vars

(* cache_init as a call: the arguments it is handed, and the cache_t it is *)
(* handed before any field is set.                                         *)
InitSizes == (0 .. 12) \cup {72, 80, 51199, 51200, 102400}
InitAvgs == {0, 1, 2, 3, 5}
InitMaxItems == {0, 2}
InitBlank ==
    /\ size = 0 /\ max_item_size = 0 /\ max_ht_entries = 0 /\ n_entry_locks = 0
    /\ used = 0 /\ n_ht_entries = 0
    /\ ht_entries = <<>> /\ ht = <<>> /\ ht_lock = NoThread /\ entry_locks = <<>>
    /\ n_accs = 0 /\ n_hits = 0 /\ n_miss_cold = 0 /\ n_miss_capacity = 0 /\ n_fail = 0
    /\ shm = [nm \in ShmNames |-> NoSeg]
    /\ pc = [t \in Threads |-> "idle"]
    /\ lv = [t \in Threads |-> NoCall]
    /\ admitted = {} /\ refused = 0 /\ calls = 0 /\ faults = 0
    /\ flushed = [keys |-> {}, calls |-> 0]
    /\ budget = 1

(* The fields cache_init sets before it allocates. *)
InitFields(t, sz, m, avg) ==
    /\ At(t, "idle")
    /\ calls < budget
    /\ calls' = calls + 1
    /\ size' = sz /\ max_item_size' = m /\ used' = 0 /\ n_ht_entries' = 0
    /\ n_accs' = 0 /\ n_hits' = 0 /\ n_miss_cold' = 0 /\ n_miss_capacity' = 0 /\ n_fail' = 0
    /\ max_ht_entries' = InitMaxHtEntries(sz, avg)
    /\ UNCHANGED <<ht, ht_lock, shm, admitted, refused, budget, flushed>>

(* cache_init: assert(c->max_ht_entries > 0) aborts; otherwise the entry    *)
(* table and the locks are allocated and 0 is returned.                    *)
CacheInit(t, sz, m, avg) ==
    /\ InitFields(t, sz, m, avg)
    /\ LET n == InitMaxHtEntries(sz, avg)
           l == [NoCall EXCEPT !.op = "init", !.sz = sz, !.max = m, !.avg = avg]
       IN  IF n = 0
           THEN /\ pc' = [pc EXCEPT ![t] = "crashed"]
                /\ lv' = [lv EXCEPT ![t] = l]
                /\ UNCHANGED <<n_entry_locks, ht_entries, entry_locks>>
           ELSE /\ ht_entries' = [i \in 0 .. n - 1 |-> ZeroEntry]
                /\ n_entry_locks' = InitNEntryLocks(n)
                /\ entry_locks' = [i \in 0 .. InitNEntryLocks(n) - 1 |-> NoThread]
                /\ pc' = [pc EXCEPT ![t] = "done"]
                /\ lv' = [lv EXCEPT ![t] = l]
    /\ UNCHANGED faults

(* mmap_alloc(c->ht_size) returns NULL: cache_init returns -ENOMEM. *)
CacheInitNoMem(t, sz, m, avg) ==
    /\ InitFields(t, sz, m, avg)
    /\ InitMaxHtEntries(sz, avg) > 0
    /\ faults < MaxFaults
    /\ faults' = faults + 1
    /\ pc' = [pc EXCEPT ![t] = "done"]
    /\ lv' = [lv EXCEPT ![t] = [NoCall EXCEPT !.op = "init", !.sz = sz, !.max = m, !.avg = avg,
                                              !.ret = 0 - ENOMEM]]
    /\ UNCHANGED <<n_entry_locks, ht_entries, entry_locks>>

(* mmap_alloc of the entry locks returns NULL, which is not looked at:     *)
(* pthread_spin_init writes through it.                                    *)
CacheInitNoLocks(t, sz, m, avg) ==
    /\ InitFields(t, sz, m, avg)
    /\ InitMaxHtEntries(sz, avg) > 0
    /\ faults < MaxFaults
    /\ faults' = faults + 1
    /\ ht_entries' = [i \in 0 .. InitMaxHtEntries(sz, avg) - 1 |-> ZeroEntry]
    /\ n_entry_locks' = InitNEntryLocks(InitMaxHtEntries(sz, avg))
    /\ pc' = [pc EXCEPT ![t] = "crashed"]
    /\ lv' = [lv EXCEPT ![t] = [NoCall EXCEPT !.op = "init", !.sz = sz, !.max = m, !.avg = avg]]
    /\ UNCHANGED entry_locks

NextInit ==
    \/ \E sz \in InitSizes, m \in InitMaxItems, avg \in InitAvgs :
          \/ CacheInit(1, sz, m, avg)
          \/ CacheInitNoMem(1, sz, m, avg)
          \/ CacheInitNoLocks(1, sz, m, avg)
    \/ Forget(1)
SpecInit == InitBlank /\ [][NextInit]_vars

(* ------------------------------ properties ----------------------------- *)
Returned(t, op) == pc[t] = "done" /\ lv[t].op = op
NoneInFlight == \A t \in Threads : Quiet(t)
NoneCrashed == \A t \in Threads : pc[t] # "crashed"

(* cache_read missed, read the file and called cache_store. *)
ReadStored(t) == Returned(t, "read") /\ lv[t].sz > 0
ReadRefused(t) == ReadStored(t) /\ lv[t].status < 0

AdmittedKeys == {a[1] : a \in admitted}

(* The segment of the store made by this cache_read could be created.      *)
SegmentCreated(t) == lv[t].status \notin {0 - EMFILE, 0 - ENOSPC}

(* C1: for a non-empty file F with bytes B, |B| <= max and |B| <= M (or    *)
(* M = 0): a first cache_read(F) that finds |B| <= remaining capacity (in  *)
(* bytes, with a slot free and the segment creatable) returns |B| with the *)
(* buffer equal to B and admits F; a cache_read(F) of a file admitted by   *)
(* an earlier cache_read returns |B| with the buffer equal to B.           *)
C1_ReadThrough ==
    \A t \in Threads :
        (/\ Returned(t, "read")
         /\ lv[t].path \in DOMAIN Files
         /\ Len(Files[lv[t].path]) > 0
         /\ Len(Files[lv[t].path]) <= lv[t].max
         /\ max_item_size = 0 \/ Len(Files[lv[t].path]) <= max_item_size)
        => LET B == Files[lv[t].path]
           IN  /\ (/\ ~lv[t].in0
                   /\ Len(B) <= size - lv[t].used0
                   /\ lv[t].n0 < max_ht_entries
                   /\ SegmentCreated(t))
                     => (lv[t].ret = Len(B) /\ lv[t].data = B /\ HashFind(lv[t].path) # NULL)
               /\ (lv[t].in0 /\ <<lv[t].path, "read">> \in admitted)
                     => (lv[t].ret = Len(B) /\ lv[t].data = B)

(* C2: a cache_read whose cache_store was refused, for whatever reason,    *)
(* returns the true size of the file with the bytes of the file in the     *)
(* buffer, and every refusal is counted in n_miss_capacity.                *)
C2_RefusedStillServes ==
    /\ \A t \in Threads :
          ReadRefused(t) => /\ lv[t].ret = Len(Files[lv[t].path])
                            /\ lv[t].ret >= 0
                            /\ lv[t].data = Files[lv[t].path]
    /\ n_miss_capacity
         + Cardinality({t \in Threads : pc[t] = "rd_stored" /\ lv[t].status < 0}) = refused

(* A second read of a file whose admission was refused before is refused   *)
(* and served again.                                                       *)
C2_Witness ==
    \E t \in Threads : /\ ReadRefused(t)
                       /\ lv[t].cap0 >= 1
                       /\ n_miss_capacity = lv[t].cap0 + 1
                       /\ lv[t].data = Files[lv[t].path]

(* C3: when no cache_read is in flight,                                    *)
(* hits + cold misses + capacity misses + fails = accesses.                *)
C3_StatsSum ==
    (NoneInFlight /\ NoneCrashed)
        => n_hits + n_miss_cold + n_miss_capacity + n_fail = n_accs

(* C4: with max_item_size = 0 cache_store never returns E2BIG, whether     *)
(* called directly or by cache_read.                                       *)
C4_UnlimitedNeverE2BIG ==
    max_item_size = 0
        => \A t \in Threads :
              /\ Returned(t, "store") => lv[t].ret # 0 - E2BIG
              /\ ReadStored(t) => lv[t].status # 0 - E2BIG

(* C5: with M > 0 a store of exactly M bytes made while a slot is free and *)
(* M bytes are left, and whose segment can be created, returns 0; a store  *)
(* of M + 1 bytes returns E2BIG; every entry in the hash table has         *)
(* size <= M.                                                              *)
C5_MaxItemSize ==
    max_item_size > 0
        => /\ \A k \in 1 .. Len(ht) : ht_entries[ht[k]].size <= max_item_size
           /\ \A t \in Threads :
                 Returned(t, "store")
                    => /\ (/\ lv[t].sz = max_item_size
                           /\ lv[t].n0 < max_ht_entries
                           /\ lv[t].used0 + lv[t].sz <= size
                           /\ lv[t].ret \notin {0 - EMFILE, 0 - ENOSPC})
                          => lv[t].ret = 0
                       /\ lv[t].sz = max_item_size + 1 => lv[t].ret = 0 - E2BIG

(* An entry of exactly M bytes is in the table and a store of M + 1 bytes  *)
(* has just been rejected.                                                 *)
C5_Witness ==
    /\ max_item_size > 0
    /\ \E k \in 1 .. Len(ht) : ht_entries[ht[k]].size = max_item_size
    /\ \E t \in Threads : /\ Returned(t, "store")
                          /\ lv[t].sz = max_item_size + 1
                          /\ lv[t].ret = 0 - E2BIG

(* C6: the sizes of the entries in the hash table sum to at most c->size,  *)
(* and each of them is at most c->size.                                    *)
C6_CapacityBound ==
    /\ SumSizes(ht) <= size
    /\ \A k \in 1 .. Len(ht) : ht_entries[ht[k]].size <= size

(* The table is exactly full while a racing store is rolling its           *)
(* reservation back.                                                       *)
C6_Witness ==
    /\ SumSizes(ht) = size
    /\ Len(ht) >= 1
    /\ \E t \in Threads : /\ pc[t] = "st_check"
                          /\ OutOfRange(lv[t].used_old, lv[t].sz)
                          /\ used > size

(* C7: when no operation is in flight a key is found in the hash table iff *)
(* a cache_store of it (direct, or by cache_read) returned 0 since the     *)
(* last flush.                                                             *)
C7_ContainsIffAdmitted ==
    NoneInFlight => \A p \in AllPaths : (HashFind(p) # NULL) <=> (p \in AdmittedKeys)

(* cache_contains has just returned true for an admitted key while the     *)
(* store of another key was refused.                                       *)
C7_Witness ==
    /\ NoneInFlight
    /\ \E t \in Threads : Returned(t, "contains") /\ lv[t].ret = 1 /\ lv[t].path \in AdmittedKeys
    /\ \E p \in AllPaths : HashFind(p) = NULL
    /\ n_ht_entries > Len(ht)

(* C8: a cache_load of a key that was in the hash table when the call      *)
(* began does not return -ENODATA, be it called directly or by cache_read. *)
C8_LoadNeverMisses ==
    \A t \in Threads :
        /\ (Returned(t, "load") /\ lv[t].in0) => lv[t].ret # 0 - ENODATA
        /\ (Returned(t, "read") /\ lv[t].in0) => (lv[t].sz = 0 /\ lv[t].status # 0 - ENODATA)

(* A load of a contained key has returned after another key was added to   *)
(* the table.                                                              *)
C8_Witness ==
    \E t \in Threads : /\ Returned(t, "read")
                       /\ lv[t].in0
                       /\ lv[t].status = 0
                       /\ Len(ht) >= 2
                       /\ ht_entries[ht[Len(ht)]].path # lv[t].path

(* C9: after cache_store(p, d, n) returned 0, cache_load(p, out, &k, n)    *)
(* returns 0 with k = n and out = d.                                       *)
C9_StoreLoadRoundTrip ==
    \A t \in Threads :
        (Returned(t, "store_load") /\ lv[t].ret = 0)
            => /\ lv[t].status = 0
               /\ lv[t].bytes = Len(lv[t].prev)
               /\ lv[t].data = lv[t].prev

(* A non-empty item has been stored over a segment another key used, and   *)
(* loaded back.                                                            *)
C9_Witness ==
    \E t \in Threads : /\ Returned(t, "store_load")
                       /\ lv[t].ret = 0
                       /\ lv[t].status = 0
                       /\ Len(lv[t].prev) = 2
                       /\ lv[t].data = lv[t].prev
                       /\ Len(ht) >= 1

(* C10: while every call so far was a cache_read that admitted its file, a *)
(* further cache_read of a file that fits (in M, in the bytes left, with a *)
(* slot free and the segment creatable) admits it too and adds its size to *)
(* used; once used = c->size the next cache_read that misses is refused,   *)
(* adds one to n_miss_capacity and leaves used = c->size.                  *)
C10_ExactFill ==
    \A t \in Threads :
        (ReadStored(t) /\ n_accs = calls /\ n_hits = 0 /\ n_fail = 0 /\ lv[t].cap0 = 0)
            => /\ (/\ lv[t].used0 + lv[t].sz <= size
                   /\ max_item_size = 0 \/ lv[t].sz <= max_item_size
                   /\ lv[t].n0 < max_ht_entries
                   /\ SegmentCreated(t))
                    => (lv[t].status = 0 /\ used = lv[t].used0 + lv[t].sz)
               /\ lv[t].used0 = size
                    => (/\ lv[t].status < 0
                        /\ n_miss_capacity = lv[t].cap0 + 1
                        /\ used = size)

(* The item of the store made by this call fitted when the call began: in  *)
(* M, in the bytes left and in the slots left.                             *)
FitsAtCall(t) ==
    /\ max_item_size = 0 \/ lv[t].sz <= max_item_size
    /\ lv[t].used0 + lv[t].sz <= size
    /\ lv[t].n0 < max_ht_entries

(* C11: in a history of cache_read calls by one caller (two passes over a  *)
(* file set), a read of a file that is not in the table admits it as a     *)
(* cold miss iff it fits (M = 0 meaning no limit) and is a capacity miss   *)
(* otherwise, and a read of a file admitted before is a hit.               *)
C11_TwoPass ==
    \A t \in Threads :
        (/\ Returned(t, "read")
         /\ n_accs = calls
         /\ lv[t].path \in DOMAIN Files
         /\ Len(Files[lv[t].path]) > 0
         /\ Len(Files[lv[t].path]) <= lv[t].max
         /\ SegmentCreated(t))
        => IF lv[t].in0
           THEN lv[t].sz = 0 /\ lv[t].status = 0 /\ n_miss_capacity = lv[t].cap0
           ELSE /\ lv[t].sz = Len(Files[lv[t].path])
                /\ lv[t].status = 0 <=> FitsAtCall(t)
                /\ n_miss_capacity = lv[t].cap0 + (IF FitsAtCall(t) THEN 0 ELSE 1)

(* C12: when cache_flush returns the hash table is empty, used = 0,        *)
(* n_ht_entries = 0 and the segment of every entry that was in the table   *)
(* when the flush began has been unlinked.                                 *)
C12_FlushEmpties ==
    \A t \in Threads :
        Returned(t, "flush")
            => /\ \A p \in AllPaths : HashFind(p) = NULL
               /\ used = 0
               /\ n_ht_entries = 0
               /\ \A k \in 1 .. Len(lv[t].prev) :
                      shm[ht_entries[lv[t].prev[k]].shm_path] = NoSeg

(* A step of cache_flush: its call, one iteration, or its clear and return. *)
FlushStep == \E t \in Threads : pc[t] = "fl_iter" \/ pc'[t] = "fl_iter"

(* C13: no step of cache_flush changes a statistics counter or the         *)
(* configuration (size, max_item_size, max_ht_entries, n_entry_locks and   *)
(* the lock id of any entry).                                              *)
C13_FlushFrame ==
    [][FlushStep => /\ UNCHANGED <<n_accs, n_hits, n_miss_cold, n_miss_capacity, n_fail>>
                    /\ UNCHANGED <<size, max_item_size, max_ht_entries, n_entry_locks>>
                    /\ \A i \in DOMAIN ht_entries : LockId(i)' = LockId(i)]_vars

(* A flush of a table that held an entry has returned, with accesses,      *)
(* a cold miss and a hit counted before it.                                *)
C13_Witness ==
    \E t \in Threads : /\ Returned(t, "flush")
                       /\ lv[t].prev # <<>>
                       /\ n_accs >= 2
                       /\ n_miss_cold >= 1
                       /\ n_hits >= 1

(* The keys admitted since the flush, this call's own key left out.        *)
AdmittedBefore(t) == {a \in admitted : a[1] # lv[t].path}

(* Since the last flush the caller has only read files again that          *)
(* cache_read had admitted before it, and this call reads one more of them.*)
SecondPass(t) ==
    /\ Returned(t, "read")
    /\ lv[t].path \in flushed.keys
    /\ ~lv[t].in0
    /\ Len(Files[lv[t].path]) <= lv[t].max
    /\ \A a \in AdmittedBefore(t) : a[1] \in flushed.keys /\ a[2] = "read"
    /\ calls = flushed.calls + Cardinality(AdmittedBefore(t)) + 1
    /\ SegmentCreated(t)

(* C14: after cache_flush, with no new cache_init, a cache_read of a file  *)
(* admitted before the flush admits it again as a cold miss and not a hit, *)
(* used is again the sum of the sizes of the files admitted, and the slots *)
(* taken before the flush are free again.                                  *)
C14_ReusableAfterFlush ==
    \A t \in Threads :
        SecondPass(t)
            => /\ lv[t].status = 0
               /\ lv[t].ret = Len(Files[lv[t].path])
               /\ n_miss_cold = lv[t].cold0 + 1
               /\ n_hits = lv[t].hits0
               /\ HashFind(lv[t].path) # NULL
               /\ used = SumSizes(ht)
               /\ n_ht_entries = Len(ht)

(* A first pass had filled every slot with a file; after the flush the     *)
(* first of these files has been read and admitted again.                  *)
C14_Witness ==
    \E t \in Threads : /\ SecondPass(t)
                       /\ Cardinality(flushed.keys) = max_ht_entries
                       /\ lv[t].status = 0
                       /\ Len(ht) = 1

(* The paths the workers have read, each worker only its own.              *)
PathsRead == {lv[t].path : t \in {u \in Threads : lv[u].op = "read"}}

RECURSIVE TotalSize(_)
TotalSize(ps) ==
    IF ps = {} THEN 0
    ELSE LET q == CHOOSE x \in ps : TRUE IN Len(Files[q]) + TotalSize(ps \ {q})

(* Every call so far was a cache_read by a worker of its own path, all     *)
(* have returned, and the files read fit in the cache together.            *)
DisjointReaders ==
    /\ NoneInFlight
    /\ NoneCrashed
    /\ n_accs = calls
    /\ \A t \in Threads : lv[t].op = "read" => lv[t].path = OwnPath(t)
    /\ TotalSize(PathsRead) <= size
    /\ \A q \in PathsRead : Len(Files[q]) <= MaxRead

(* C15: when workers have only called cache_read, each on its own path,    *)
(* the files read fit in size together and each is at most max, then once  *)
(* all calls have returned n_hits >= n_accs - the number of distinct paths.*)
C15_DisjointReadersHit ==
    DisjointReaders => n_hits >= n_accs - Cardinality(PathsRead)

(* C16: with cache_flush and cache_load running concurrently, no assertion *)
(* of cache_load on its shm_open or mmap fails, and a cache_load that has  *)
(* returned either missed (-ENODATA) or returned 0 with all the bytes that *)
(* were admitted for its key.                                              *)
C16_FlushLoadHandOff ==
    /\ NoneCrashed
    /\ \A t \in Threads :
           Returned(t, "load")
               => \/ lv[t].status = 0 - ENODATA
                  \/ lv[t].status = 0 /\ lv[t].data = Files[lv[t].path]

(* C17: in every reachable state n_ht_entries <= max_ht_entries.           *)
C17_SlotBound == n_ht_entries <= max_ht_entries

(* C17, amended: the table never holds more than max_ht_entries entries    *)
(* and every slot index a cache_store works on is below max_ht_entries;    *)
(* the counter n_ht_entries itself goes past max_ht_entries, by one for    *)
(* each attempt made on a full table, so by at most the number of calls.   *)
C17_SlotsInRange ==
    /\ Len(ht) <= max_ht_entries
    /\ \A k \in 1 .. Len(ht) : ht[k] \in 0 .. max_ht_entries - 1
    /\ \A t \in Threads :
           pc[t] \in {"st_used", "st_check", "st_lock", "st_add"} => lv[t].n < max_ht_entries
    /\ n_ht_entries <= max_ht_entries + calls

(* The table is full and a store attempted after that has been refused.   *)
C17_Witness ==
    /\ Len(ht) = max_ht_entries
    /\ n_ht_entries > max_ht_entries
    /\ \E t \in Threads : /\ pc[t] = "done"
                          /\ lv[t].n = max_ht_entries
                          /\ lv[t].status = 0 - ENOMEM

(* C18: outside cache_flush no step decreases used.                        *)
C18_UsedMonotone == [][FlushStep \/ used' >= used]_vars

(* The step of a cache_store that undoes its own expansion of used.        *)
RollsBack(t) ==
    /\ pc[t] = "st_check"
    /\ pc'[t] # "st_check"
    /\ OutOfRange(lv[t].used_old, lv[t].sz)
    /\ used' = used - lv[t].sz

(* C18, amended: outside cache_flush used decreases only in the step of a  *)
(* cache_store whose range check failed, by exactly the size that store    *)
(* had added; the bytes of the entries in the table never decrease.        *)
C18_UsedDropsOnlyOnRollback ==
    [][FlushStep \/ (/\ used' >= used \/ \E t \in Threads : RollsBack(t)
                     /\ SumSizes(ht)' >= SumSizes(ht))]_vars

(* A store that lost the capacity race has rolled used back while the      *)
(* other worker's store was still in progress.                             *)
C18_Witness ==
    \E t \in Threads :
        /\ pc[t] = "done"
        /\ lv[t].status = 0 - ENOMEM
        /\ lv[t].n # NULL /\ lv[t].n < max_ht_entries
        /\ OutOfRange(lv[t].used_old, lv[t].sz)
        /\ used <= size
        /\ \E u \in Threads \ {t} : pc[u] \in {"st_check", "st_lock", "st_add"}

(* The cache_store made by this cache_read found no free slot.             *)
ReadOutOfSlots(t) ==
    /\ ReadRefused(t)
    /\ lv[t].n # NULL
    /\ SlotFull(lv[t].n)

(* C19: a cache_read that missed and whose cache_store found no free slot  *)
(* returns -ENOMEM and is counted in n_fail.                               *)
C19_SlotExhaustionFails ==
    \A t \in Threads :
        ReadOutOfSlots(t) => lv[t].ret = 0 - ENOMEM /\ n_fail = lv[t].fail0 + 1

(* C20: two entries of the table with distinct paths have distinct segment *)
(* names, and the segment of every entry of the table still has the size   *)
(* the entry was admitted with.                                            *)
C20_NamesInjective ==
    /\ \A i, j \in 1 .. Len(ht) :
           ht_entries[ht[i]].path # ht_entries[ht[j]].path
               => ht_entries[ht[i]].shm_path # ht_entries[ht[j]].shm_path
    /\ NoneInFlight
           => \A i \in 1 .. Len(ht) :
                  LET e == ht_entries[ht[i]]
                  IN  shm[e.shm_path] # NoSeg => Len(shm[e.shm_path]) = e.size

(* A call of worker t has started and has not returned.                    *)
InCall(t) == pc[t] \notin {"idle", "done", "crashed"}

(* C21: under fair scheduling of the workers every call that has started   *)
(* eventually returns, whatever locks it has to wait for.                  *)
C21_EveryCallReturns == \A t \in Threads : InCall(t) ~> (pc[t] = "done")

(* C22: with max_item_size > 0 a cache_store of more than max_item_size    *)
(* bytes returns -E2BIG and leaves n_ht_entries, used, the hash table, the *)
(* entries and every segment as they were when it was called.              *)
C22_OversizeStoreFrame ==
    \A t \in Threads :
        (Returned(t, "store") /\ max_item_size > 0 /\ lv[t].sz > max_item_size)
            => /\ lv[t].ret = 0 - E2BIG
               /\ n_ht_entries = lv[t].n0
               /\ used = lv[t].used0
               /\ ht = lv[t].ht0
               /\ ht_entries = lv[t].ents0
               /\ shm = lv[t].shm0

(* An oversize store has been refused by a cache that holds an entry.      *)
C22_Witness ==
    \E t \in Threads : /\ Returned(t, "store")
                       /\ max_item_size > 0
                       /\ lv[t].sz > max_item_size
                       /\ lv[t].ret = 0 - E2BIG
                       /\ Len(ht) >= 1
                       /\ used > 0

(* C23: a cache_load that has returned left used, n_ht_entries, the hash   *)
(* table, the entries, the segments and the five counters as they were     *)
(* when it was called; for a key that is not in the table it returned      *)
(* -ENODATA without having reached any entry or segment.                   *)
C23_LoadFrame ==
    \A t \in Threads :
        Returned(t, "load")
            => /\ used = lv[t].used0
               /\ n_ht_entries = lv[t].n0
               /\ ht = lv[t].ht0
               /\ ht_entries = lv[t].ents0
               /\ shm = lv[t].shm0
               /\ n_accs = lv[t].accs0
               /\ n_hits = lv[t].hits0
               /\ n_miss_cold = lv[t].cold0
               /\ n_miss_capacity = lv[t].cap0
               /\ n_fail = lv[t].fail0
               /\ ~lv[t].in0 => /\ lv[t].ret = 0 - ENODATA
                                /\ lv[t].entry = NULL
                                /\ lv[t].bytes = 0
                                /\ lv[t].data = <<>>

(* A load has hit in a table of two entries after reads were counted.      *)
C23_Witness ==
    \E t \in Threads : /\ Returned(t, "load")
                       /\ lv[t].in0
                       /\ lv[t].ret = 0
                       /\ Len(ht) = 2
                       /\ n_accs >= 1

FailsRangeCheck(t) ==
    /\ Returned(t, "store")
    /\ lv[t].sz <= max_item_size
    /\ lv[t].n0 < max_ht_entries
    /\ lv[t].used0 + lv[t].sz > size

(* C26: a cache_store that fails the range check returns -ENOMEM with used,*)
(* the hash table and the segments as they were at its call, and with      *)
(* n_ht_entries one more than at its call.                                 *)
C26_RangeFailureFrame ==
    \A t \in Threads :
        FailsRangeCheck(t)
            => /\ lv[t].ret = 0 - ENOMEM
               /\ used = lv[t].used0
               /\ ht = lv[t].ht0
               /\ shm = lv[t].shm0
               /\ n_ht_entries = lv[t].n0 + 1
               /\ \A p \in AllPaths : HashFind(p) # NULL <=> p \in AdmittedKeys

(* A store has failed the range check of a cache that holds an entry.      *)
C26_Witness ==
    \E t \in Threads : /\ FailsRangeCheck(t)
                       /\ lv[t].ret = 0 - ENOMEM
                       /\ lv[t].used0 > 0
                       /\ Len(ht) >= 1


(* The positions of a call at which it holds one of the entry locks.       *)
HoldsEntryLock(t) == \E i \in DOMAIN entry_locks : entry_locks[i] = t

(* C27: a worker that holds an entry lock is past its use of the hash-table *)
(* lock (it never takes or waits for ht_lock: not at the start of a call,   *)
(* not at ld_lock, not at st_lock), and a worker about to take an entry     *)
(* lock, in cache_load or in cache_flush, holds ht_lock already: the only   *)
(* nesting is ht_lock first, then the entry lock.                           *)
C27_LockOrder ==
    \A t \in Threads :
        /\ HoldsEntryLock(t) => pc[t] \in {"ld_open", "ld_copy", "crashed"}
        /\ pc[t] \in {"ld_elock", "fl_iter"} => ht_lock = t

(* C27 witness: a load copies under its entry lock while another worker,   *)
(* inside a flush, holds ht_lock and waits for that entry lock.            *)
C27_Witness ==
    \E t, u \in Threads :
        /\ t # u
        /\ pc[t] = "ld_copy" /\ HoldsEntryLock(t)
        /\ pc[u] = "fl_iter" /\ ht_lock = u
        /\ lv[u].walk # <<>> /\ entry_locks[LockId(Head(lv[u].walk))] = t

(* The positions of a call between a lock and an unlock of ht_lock, where  *)
(* it looks up, inserts into, iterates or clears the hash index.           *)
InDirectory(t) == pc[t] \in {"ct_find", "ld_find", "ld_elock", "st_add", "fl_iter"}

(* C28: a worker that is at a lookup (cache_contains, cache_load), at the   *)
(* insert of cache_store or in the iteration and clear of cache_flush holds *)
(* ht_lock, so no two workers are inside a directory operation at once.     *)
C28_DirectoryUnderLock ==
    /\ \A t \in Threads : InDirectory(t) => ht_lock = t
    /\ \A t, u \in Threads : InDirectory(t) /\ InDirectory(u) => t = u

(* C28 witness: one worker is at the insert of cache_store with ht_lock     *)
(* held while another one has arrived at its own lock of ht_lock.          *)
C28_Witness ==
    \E t, u \in Threads :
        /\ t # u
        /\ pc[t] = "st_add" /\ ht_lock = t
        /\ pc[u] \in {"ld_lock", "st_lock"}

(* A cache_store between its slot acquisition and its return. *)
HasSlot(t) == pc[t] \in {"st_used", "st_check", "st_lock", "st_add"}

(* The slots the hash index holds. *)
Inserted == {ht[i] : i \in DOMAIN ht}

(* The fields of a slot that cache_store fills in. *)
SlotFields(e) == <<e.path, e.size, e.shm_path>>

(* C29: between flushes no two cache_store calls obtain the same slot (the  *)
(* slots of two stores in flight differ, the slot of a store in flight is   *)
(* not one already inserted, a store obtains the value of the counter and   *)
(* moves it on, and the counter only falls in a flush); path, size and      *)
(* segment name of a slot are only written by the store that obtained it,   *)
(* before its insert; once inserted, the slot keeps them until the flush.   *)
C29_SlotWrittenOnce ==
    /\ [](\A t \in Threads :
            HasSlot(t) => /\ lv[t].n \in 0 .. n_ht_entries - 1
                          /\ lv[t].n < max_ht_entries
                          /\ lv[t].n \notin Inserted
                          /\ \A u \in Threads \ {t} : (HasSlot(u) => lv[u].n # lv[t].n))
    /\ [][/\ \A t \in Threads :
               (pc[t] = "st_slot" /\ pc'[t] = "st_used")
                   => (lv'[t].n = n_ht_entries /\ n_ht_entries' = n_ht_entries + 1)
          /\ (n_ht_entries' < n_ht_entries => FlushStep)
          /\ \A n \in DOMAIN ht_entries :
               SlotFields(ht_entries'[n]) # SlotFields(ht_entries[n])
                   => /\ n \notin Inserted /\ n \notin {ht'[i] : i \in DOMAIN ht'}
                      /\ \E t \in Threads : /\ pc[t] \in {"st_used", "st_check"}
                                            /\ lv[t].n = n]_vars

(* C29 witness: one slot is inserted and a later store has filled in the    *)
(* next slot, which is not inserted yet.                                   *)
C29_Witness ==
    \E t \in Threads :
        /\ pc[t] = "st_lock"
        /\ SlotFields(ht_entries[lv[t].n]) # SlotFields(ZeroEntry)
        /\ Inserted # {}
        /\ lv[t].n \notin Inserted /\ lv[t].n > 0

(* The slot holds a key and its segment name, and the segment exists with  *)
(* the slot's size.                                                        *)
Initialised(n) ==
    /\ ht_entries[n].path # <<>>
    /\ ht_entries[n].shm_path = ShmPath(ht_entries[n].path)
    /\ shm[ht_entries[n].shm_path] # NoSeg

C31_LoadReleasesHandles ==
    \A t \in Threads :
        pc[t] = "done" /\ lv[t].op \in {"load", "read", "store_load"} => lv[t].held = {}

(* The file of a cache_read cannot be opened, or its size is 0 or above max. *)
NoFile(t) == lv[t].path \notin DOMAIN Files
BadFile(t) == lv[t].path \in DOMAIN Files /\ BadFileSize(Len(Files[lv[t].path]), lv[t].max)

(* C32: a cache_read of a file that cannot be opened has returned -ENOENT,  *)
(* one of a file of size 0 or above max has returned -EINVAL; either way    *)
(* n_fail is one more than at the call, hits and misses are as at the call, *)
(* and used, n_ht_entries and the hash index are unchanged.                 *)
C32_BadFileFails ==
    \A t \in Threads :
        Returned(t, "read") /\ (NoFile(t) \/ BadFile(t))
            => /\ lv[t].ret = IF NoFile(t) THEN 0 - ENOENT ELSE 0 - EINVAL
               /\ n_fail = lv[t].fail0 + 1
               /\ n_hits = lv[t].hits0
               /\ n_miss_cold = lv[t].cold0
               /\ n_miss_capacity = lv[t].cap0
               /\ used = lv[t].used0
               /\ n_ht_entries = lv[t].n0
               /\ ht = lv[t].ht0

(* C33: after a miss on a file of s bytes, 0 < s <= max, the length asked   *)
(* of the file system was the smallest multiple of 4096 not below s, the    *)
(* value returned is s and the entry admitted has size s.                   *)
C33_ReadRoundsUp ==
    \A t \in Threads :
        (/\ Returned(t, "read") /\ ~lv[t].in0
         /\ lv[t].path \in DOMAIN Files
         /\ ~BadFileSize(Len(Files[lv[t].path]), lv[t].max))
            => LET s == Len(Files[lv[t].path])
                   up == ((s + 4095) \div 4096) * 4096
               IN  /\ lv[t].req = up
                   /\ lv[t].ret = s
                   /\ lv[t].status = 0 => ht_entries[lv[t].n].size = s

(* C34: a cache_init that was called has returned (it did not abort);      *)
(* when it returned 0, max_ht_entries is floor(2 * size / avg), with 100    *)
(* KiB for avg = 0, and is at least 1, and n_entry_locks is the larger of 8 *)
(* and floor(max_ht_entries / 16); otherwise it returned -ENOMEM.           *)
C34_InitYieldsCacheOrError ==
    \A t \in Threads :
        lv[t].op = "init"
            => /\ pc[t] = "done"
               /\ lv[t].ret \in {0, 0 - ENOMEM}
               /\ lv[t].ret = 0
                    => LET a == IF lv[t].avg = 0 THEN 102400 ELSE lv[t].avg
                           n == (2 * lv[t].sz) \div a
                       IN  /\ max_ht_entries = n
                           /\ max_ht_entries >= 1
                           /\ n_entry_locks = IF n \div 16 > 8 THEN n \div 16 ELSE 8

(* C35: a cache_store that passed the range check and stops at the creation, *)
(* sizing or mapping of its segment returns a negative value, its path is   *)
(* not in the hash index, and a segment that did not exist when it was      *)
(* called does not exist when it ends.                                      *)
C35_SegmentFailureCleansUp ==
    [][\A t \in Threads :
          (/\ pc[t] = "st_check" /\ ~OutOfRange(lv[t].used_old, lv[t].sz)
           /\ pc'[t] \notin {"st_check", "st_lock"})
              => /\ pc'[t] \in {"done", "rd_stored"}
                 /\ lv'[t].status < 0
                 /\ ht' = ht
                 /\ \A k \in 1 .. Len(ht) : ht_entries'[ht[k]].path # lv[t].path
                 /\ LET seg == ShmPath(Strncpy(lv[t].path))
                    IN  lv[t].shm0[seg] = NoSeg => shm'[seg] = NoSeg]_vars

(* The hash index held an entry written for the path when the call began.  *)
EntryAtCall(t) ==
    \E k \in DOMAIN lv[t].ht0 : lv[t].ents0[lv[t].ht0[k]].path = Strncpy(lv[t].path)

(* C36: a cache_read of a path for which an entry was admitted is a hit and *)
(* admits nothing (n_ht_entries and used as at the call), whatever the      *)
(* length of the path, and no two entries of the hash index have one key.   *)
C36_LongPathHitsAgain ==
    /\ \A t \in Threads :
          Returned(t, "read") /\ EntryAtCall(t)
              => /\ n_hits = lv[t].hits0 + 1
                 /\ n_ht_entries = lv[t].n0
                 /\ used = lv[t].used0
    /\ \A i, j \in DOMAIN ht : i # j => ht_entries[ht[i]].path # ht_entries[ht[j]].path

(* C37: a worker that is not inside a call, or is inside cache_read with   *)
(* its cache_load or cache_store returned, or between the two calls of a    *)
(* store followed by a load, holds neither ht_lock nor an entry lock.       *)
C37_ReturnsHoldNoLock ==
    \A t \in Threads :
        pc[t] \in {"idle", "done", "rd_loaded", "rd_stored", "ld_lock"}
            => ht_lock # t /\ ~HoldsEntryLock(t)

(* C37 witness: a cache_read has returned -EINVAL from the TOO_LARGE branch *)
(* of its cache_load, which unlocks the entry on its own.                   *)
C37_Witness ==
    \E t \in Threads :
        /\ Returned(t, "read") /\ lv[t].in0
        /\ lv[t].ret = 0 - EINVAL
        /\ ht_lock # t /\ ~HoldsEntryLock(t)

(* C38: while no cache_store is between its slot acquisition and its      *)
(* return, used is the sum of the sizes of the entries in the hash index,   *)
(* also after stores that failed.                                           *)
C38_UsedIsSumOfEntries ==
    (\A t \in Threads : pc[t] \notin {"st_slot", "st_used", "st_check", "st_lock", "st_add"})
        => used = SumSizes(ht)

(* C39: cache_flush, run by a process, closes the descriptor and unmaps    *)
(* the address of an entry of the hash index only when that process itself  *)
(* recorded them in the entry; since cache_store keeps its mapping until a  *)
(* flush unmaps it, this is also what leaves no mapping of a flushed        *)
(* payload behind.                                                          *)
C39_FlushActsOnOwnHandles ==
    [][\A t \in Threads :
          (/\ pc[t] = "fl_iter" /\ lv[t].walk # <<>>
           /\ lv'[t].walk = Tail(lv[t].walk)
           /\ \E k \in DOMAIN ht : ht[k] = Head(lv[t].walk))
              => ht_entries[Head(lv[t].walk)].owner = t]_vars

(* C40: every slot index cache_store writes lies in 0 .. max_ht_entries-1, *)
(* and the step of a cache_store whose fetch-and-add on n_ht_entries       *)
(* yields n >= max_ht_entries writes no entry field, leaves used, the      *)
(* index and the segments as they are, and returns -ENOMEM, whatever the   *)
(* other workers are doing.                                                *)
C40_FullTableStoreWritesNothing ==
    /\ [](\A t \in Threads : HasSlot(t) => lv[t].n \in 0 .. max_ht_entries - 1)
    /\ [][\A t \in Threads :
             (pc[t] = "st_slot" /\ pc'[t] # "st_slot" /\ n_ht_entries >= max_ht_entries)
                 => /\ ht_entries' = ht_entries
                    /\ used' = used
                    /\ shm' = shm
                    /\ ht' = ht
                    /\ lv'[t].n = n_ht_entries
                    /\ lv'[t].status = 0 - ENOMEM
                    /\ pc'[t] \in {"done", "rd_stored"}]_vars

(* A cache_store has been refused for want of a slot while another worker  *)
(* is in the middle of its own cache_store, holding a slot.                *)
C40_Witness ==
    \E t \in Threads, u \in Threads :
        /\ t # u
        /\ pc[t] = "done" /\ lv[t].op = "store"
        /\ lv[t].n # NULL /\ lv[t].n >= max_ht_entries
        /\ lv[t].ret = 0 - ENOMEM
        /\ HasSlot(u)

TypeOK ==
    /\ used \in Nat
    /\ n_ht_entries \in Nat
    /\ ht_lock \in Threads \cup {NoThread}
    /\ \A t \in Threads : pc[t] \in {"idle", "done", "crashed", "ct_find", "st_slot", "st_used",
           "st_check", "st_lock", "st_add", "ld_lock", "ld_find",
           "ld_elock", "ld_open", "ld_copy", "rd_loaded", "rd_stored", "fl_iter"}

====
